---- MODULE Spec2Model ----
(***************************************************************************)
(* Model of the OTA update orchestration of the trimix analyser firmware:  *)
(* OTAUpdateManager (src/src/utils/ota_update_manager.cpp).                *)
(*                                                                         *)
(* The manager runs on one thread of control.  Its callbacks (status,      *)
(* progress, completion) are std::function objects invoked synchronously,  *)
(* and the download loop yields with delay(1); code run at those points    *)
(* may call the manager's public methods again.  The model therefore keeps *)
(* a call stack of activations; only the activation on top of the stack    *)
(* takes steps.  An activation whose pc is a callback point is suspended   *)
(* inside user code, which may return or call downloadAndInstall() or      *)
(* cancelUpdate().                                                         *)
(*                                                                         *)
(* The update target (Update), the HTTP client and the WiFi status are     *)
(* external collaborators: their results are nondeterministic inputs.      *)
(* The three callbacks are taken to be registered, as the settings screen  *)
(* registers them before it calls downloadAndInstall().                    *)
(***************************************************************************)
EXTENDS Integers, Sequences, FiniteSets, TLC

\* ------------------------------------------------------------------ bounds
\* expected file sizes are multiples of SizeStep, 0 .. MaxSizeSteps * SizeStep
\* (1530: one and a half buffers, so that a download takes several chunks,
\* full chunks overshoot it, and three full chunks overshoot 2 * 1530 by
\* less than one percent)
SizeStep == 1530
MaxSizeSteps == 2
\* stream->available() returns a multiple of AvailStep, or exactly the rest
AvailStep == 1280
MaxAvailSteps == 1
\* maximum number of activations on the call stack
MaxStack == 2
\* maximum number of downloadAndInstall() activations on the call stack
MaxNest == 2
\* saturation of the per-attempt count of completion callbacks
MaxCount == 2

\* assets in a release response
MaxAssets == 2

\* characters in a version string handed to compareVersions
MaxVerLen == 5

\* characters in each of three version strings compared with one another
MaxOrdLen == 3

\* characters in an arbitrary string handed to compareVersions
MaxAnyLen == 4

\* calls of isUpdateAvailable() with one descriptor
MaxQueries == 2

\* ------------------------------------------------------- program constants
\* uint8_t buffer[1024]
BufferSize == 1024

Sizes == { k * SizeStep : k \in 0..MaxSizeSteps }
Avails == { k * AvailStep : k \in 0..MaxAvailSteps }

Min(a, b) == IF a < b THEN a ELSE b
Sat(n) == Min(n + 1, MaxCount)

VARIABLES
    updateInProgress,   \* OTAUpdateManager::updateInProgress
    totalSize,          \* OTAUpdateManager::totalSize
    downloadedSize,     \* OTAUpdateManager::downloadedSize
    target,             \* state of the update target (Update)
    stack,              \* call stack of activations, top is the last element
    restarted,          \* ESP.restart() was called
    ev,                 \* the externally visible effect of the latest step
    check,              \* a checkForUpdates() call: position, arguments, result
    ver,                \* a compareVersions() call: arguments and result
    screen              \* UpdateSettingsScreen: its flags and the handler running

vars == <<updateInProgress, totalSize, downloadedSize, target, stack,
          restarted, ev, check, ver, screen>>

\* ----------------------------------------------------------------- events
NoEv == [op |-> "none", msg |-> "", val |-> 0, ok |-> FALSE]
Ev(op, msg, val, ok) == [op |-> op, msg |-> msg, val |-> val, ok |-> ok]
StatusEv(m) == Ev("status", m, 0, FALSE)
CompleteEv(s, m) == Ev("complete", m, 0, s)
ProgressEv(p) == Ev("progress", "", p, FALSE)

\* ------------------------------------------------------------ activations
\* One record per activation.  fn, pc, size, success are the activation's
\* code position and locals; the other fields are history of the attempt.
Frame(fn, size) ==
    [fn |-> fn, pc |-> "entry", size |-> size, success |-> FALSE,
     bytesRead |-> 0,
     retval |-> FALSE,    \* the value returned, once pc = "done"
     att |-> 0,           \* cancelUpdate(): stack index of the attempt hit
     rejected |-> FALSE,  \* returned at the in-progress guard
     claimed |-> FALSE,   \* executed updateInProgress = true
     begun |-> FALSE,     \* Update.begin() succeeded in this activation
     abortCalled |-> FALSE,  \* this activation called Update.abort()
     nFalse |-> 0,        \* completion(false, ...) callbacks of the attempt
     cancelled |-> FALSE, \* cancelUpdate() acted on the attempt
     wroteAfterCancel |-> FALSE,  \* ... and a chunk was written since
     lastProg |-> -1,     \* latest value passed to the progress callback
     progMono |-> TRUE,   \* the values passed so far never decreased
     closedShort |-> FALSE]  \* loop left with downloadedSize < totalSize

Top == stack[Len(stack)]
SetTop(f) == [stack EXCEPT ![Len(stack)] = f]
Pop == SubSeq(stack, 1, Len(stack) - 1)
Running == ~restarted /\ Len(stack) > 0

\* callback points: the activation is suspended inside user code
CbPcs == {"cb_already", "cb_nowifi", "cb_starting", "cb_beginfail",
          "cb_downloading", "cb_writefail", "cb_progress", "yield",
          "cb_incomplete", "cb_completed", "cb_complete_true", "delay",
          "cb_finalfail", "cb_complete_final", "cb_failed",
          "cb_complete_failed", "cb_cancelled", "cb_complete_cancel"}

DaiFrames == { i \in 1..Len(stack) : stack[i].fn = "dai" }
ClaimedFrames == { i \in DaiFrames : stack[i].claimed }
\* the attempt a cancelUpdate() acts on: the innermost one that set the guard
InnerClaimed == CHOOSE i \in ClaimedFrames : \A j \in ClaimedFrames : j <= i

\* the manager as its constructor leaves it, no call running
InitManager ==
    /\ updateInProgress = FALSE
    /\ totalSize = 0
    /\ downloadedSize = 0
    /\ target = "idle"
    /\ stack = <<>>
    /\ restarted = FALSE
    /\ ev = NoEv

\* no checkForUpdates() / compareVersions() call under way
NoCheck == [pc |-> "idle"]
NoVer == [pc |-> "idle"]

\* no settings screen: the manager is driven by its caller directly
NoScreen ==
    [pc |-> "none", updateAvailable |-> FALSE, updating |-> FALSE,
     lastCheck |-> "none", updateUrl |-> "", foundSize |-> 0]

\* the completion callback the settings screen installs: updating = false
ScreenSees(e) ==
    IF screen.pc = "downloading" /\ e.op = "complete"
    THEN [screen EXCEPT !.updating = FALSE]
    ELSE screen

Init ==
    /\ InitManager
    /\ check = NoCheck
    /\ ver = NoVer
    /\ screen = NoScreen

\* ------------------------------------------------- pure pieces of the code
\* the in-progress guard left out
GuardRejectsNever(inProgress) == FALSE

\* if (updateInProgress) { ... return false; }
GuardRejects(inProgress) == inProgress

\* cancelUpdate() without its test of updateInProgress
CancelActsAlways(inProgress) == TRUE

\* if (updateInProgress) { Update.abort(); ... }
CancelActs(inProgress) == inProgress

\* the loop condition written with <= in place of <
LoopContinuesAtMost(connected, downloaded, total) ==
    connected /\ downloaded <= total

\* while (http.connected() && downloadedSize < totalSize)
LoopContinues(connected, downloaded, total) == connected /\ downloaded < total

\* a chunk length that takes nothing off the stream
BytesToReadNone(available) == 0

\* size_t bytesToRead = min(available, sizeof(buffer));
BytesToRead(available) == Min(available, BufferSize)

\* downloadedSize += bytesRead;
AddDownloaded(downloaded, n) == downloaded + n

\* the completeness test written as downloadedSize > totalSize
DownloadCompleteAtMost(downloaded, total) == downloaded <= total

\* if (downloadedSize != totalSize) { ... return false; } return true;
DownloadComplete(downloaded, total) == downloaded = total

\* int percentage = (current * 100) / total;
\* (size_t arithmetic; the sizes of this model stay far below 2^32 / 100, so
\* the product never wraps here)
Percentage(current, total) == (current * 100) \div total

\* stream->available(): any multiple of AvailStep, or exactly what is missing
AvailChoices == Avails \cup { n \in {totalSize - downloadedSize} : n > 0 }

\* ------------------------------------------------------------ step helpers
Step(f, e) == stack' = SetTop(f) /\ ev' = e
At(fn, pc) == Running /\ Top.fn = fn /\ Top.pc = pc
Goto(pc, e) == Step([Top EXCEPT !.pc = pc], e)
\* return v;   the activation stays on the stack for one state with pc "done"
Return(v) == Step([Top EXCEPT !.pc = "done", !.retval = v],
                  Ev("return", Top.fn, 0, v))
Mgr == <<updateInProgress, totalSize, downloadedSize>>

\* ------------------------------------------- calls made by the environment
\* User code runs at top level (empty stack) or inside a callback / yield.
CanCall ==
    /\ ~restarted
    /\ Len(stack) < MaxStack
    /\ Len(stack) > 0 => Top.pc \in CbPcs

CallDownloadAndInstall ==
    /\ CanCall
    /\ Cardinality(DaiFrames) < MaxNest
    /\ \E size \in Sizes :
         /\ stack' = Append(stack, Frame("dai", size))
         /\ ev' = Ev("call", "downloadAndInstall", size, FALSE)
    /\ UNCHANGED <<Mgr, target, restarted, check, ver>>
    /\ screen' = ScreenSees(ev')

CallCancelUpdate ==
    /\ CanCall
    /\ stack' = Append(stack, Frame("cancel", 0))
    /\ ev' = Ev("call", "cancelUpdate", 0, FALSE)
    /\ UNCHANGED <<Mgr, target, restarted, check, ver>>
    /\ screen' = ScreenSees(ev')

\* the caller resumes after the callee returned
PopFrame ==
    /\ Running /\ Top.pc = "done"
    /\ stack' = Pop
    /\ ev' = NoEv
    /\ UNCHANGED <<Mgr, target, restarted, check, ver>>
    /\ screen' = ScreenSees(ev')

\* ------------------------------------- OTAUpdateManager::downloadAndInstall
\* if (updateInProgress) { updateStatus("Update already in progress");
DaiReject ==
    /\ At("dai", "entry")
    /\ GuardRejects(updateInProgress)
    /\ Step([Top EXCEPT !.pc = "cb_already", !.rejected = TRUE],
            StatusEv("Update already in progress"))
    /\ UNCHANGED <<Mgr, target, restarted, check, ver>>
    /\ screen' = ScreenSees(ev')

\*   return false; }
DaiRejectReturn ==
    /\ At("dai", "cb_already")
    /\ Return(FALSE)
    /\ UNCHANGED <<Mgr, target, restarted, check, ver>>
    /\ screen' = ScreenSees(ev')

\* if (WiFi.status() != WL_CONNECTED) { updateStatus("WiFi not connected");
DaiNoWifi ==
    /\ At("dai", "entry")
    /\ ~GuardRejects(updateInProgress)
    /\ Goto("cb_nowifi", StatusEv("WiFi not connected"))
    /\ UNCHANGED <<Mgr, target, restarted, check, ver>>
    /\ screen' = ScreenSees(ev')

\*   return false; }
DaiNoWifiReturn ==
    /\ At("dai", "cb_nowifi")
    /\ Return(FALSE)
    /\ UNCHANGED <<Mgr, target, restarted, check, ver>>
    /\ screen' = ScreenSees(ev')

\* updateInProgress = true; updateStatus("Starting download...");
DaiAccept ==
    /\ At("dai", "entry")
    /\ ~GuardRejects(updateInProgress)
    /\ updateInProgress' = TRUE
    /\ Step([Top EXCEPT !.pc = "cb_starting", !.claimed = TRUE],
            StatusEv("Starting download..."))
    /\ UNCHANGED <<totalSize, downloadedSize, target, restarted, check, ver>>
    /\ screen' = ScreenSees(ev')

\* if (!Update.begin(release.fileSize)) {      -- begin succeeds
DaiBeginOk ==
    /\ At("dai", "cb_starting")
    /\ target' = "begun"
    /\ Step([Top EXCEPT !.pc = "begin_ok", !.begun = TRUE],
            Ev("begin", "", Top.size, TRUE))
    /\ UNCHANGED <<Mgr, restarted, check, ver>>
    /\ screen' = ScreenSees(ev')

\* if (!Update.begin(release.fileSize)) {      -- begin fails
DaiBeginFail ==
    /\ At("dai", "cb_starting")
    /\ Goto("begin_fail", Ev("begin", "", Top.size, FALSE))
    /\ UNCHANGED <<Mgr, target, restarted, check, ver>>
    /\ screen' = ScreenSees(ev')

\*   updateStatus("Failed to initialize update");
DaiBeginFailStatus ==
    /\ At("dai", "begin_fail")
    /\ Goto("cb_beginfail", StatusEv("Failed to initialize update"))
    /\ UNCHANGED <<Mgr, target, restarted, check, ver>>
    /\ screen' = ScreenSees(ev')

\* the begin-failure return without updateInProgress = false
DaiBeginFailReturnKeepsGuard ==
    /\ At("dai", "cb_beginfail")
    /\ Return(FALSE)
    /\ UNCHANGED <<Mgr, target, restarted, check, ver>>
    /\ screen' = ScreenSees(ev')

\*   updateInProgress = false; return false; }
DaiBeginFailReturn ==
    /\ At("dai", "cb_beginfail")
    /\ updateInProgress' = FALSE
    /\ Return(FALSE)
    /\ UNCHANGED <<totalSize, downloadedSize, target, restarted, check, ver>>
    /\ screen' = ScreenSees(ev')

\* ---------------------------------------- OTAUpdateManager::downloadFirmware
\* updateStatus("Downloading firmware...");
DaiDownloading ==
    /\ At("dai", "begin_ok")
    /\ Goto("cb_downloading", StatusEv("Downloading firmware..."))
    /\ UNCHANGED <<Mgr, target, restarted, check, ver>>
    /\ screen' = ScreenSees(ev')

\* int httpCode = http.GET(); if (httpCode != HTTP_CODE_OK) return false;
DaiGetFail ==
    /\ At("dai", "cb_downloading")
    /\ Goto("abort", Ev("get", "", 0, FALSE))
    /\ UNCHANGED <<Mgr, target, restarted, check, ver>>
    /\ screen' = ScreenSees(ev')

\* totalSize = expectedSize; downloadedSize = 0;
DaiGetOk ==
    /\ At("dai", "cb_downloading")
    /\ totalSize' = Top.size
    /\ downloadedSize' = 0
    /\ Goto("loop", Ev("get", "", 0, TRUE))
    /\ UNCHANGED <<updateInProgress, target, restarted, check, ver>>
    /\ screen' = ScreenSees(ev')

\* loop body with available > 0: readBytes, then Update.write(buffer, n)
DaiLoopWrite ==
    /\ At("dai", "loop")
    /\ \E connected \in BOOLEAN, available \in AvailChoices, wrote \in BOOLEAN :
         /\ LoopContinues(connected, downloadedSize, totalSize)
         /\ available > 0
         /\ Step([Top EXCEPT
                    !.pc = IF wrote THEN "written" ELSE "write_fail",
                    !.bytesRead = BytesToRead(available),
                    !.wroteAfterCancel = Top.cancelled],
                 Ev("write", "", BytesToRead(available), wrote))
    /\ UNCHANGED <<Mgr, target, restarted, check, ver>>
    /\ screen' = ScreenSees(ev')

\* variant whose idle iteration goes straight back to the loop condition
DaiLoopIdleNoYield ==
    /\ At("dai", "loop")
    /\ \E connected \in BOOLEAN :
         LoopContinues(connected, downloadedSize, totalSize)
    /\ 0 \in AvailChoices
    /\ Goto("loop", NoEv)
    /\ UNCHANGED <<Mgr, target, restarted, check, ver>>
    /\ screen' = ScreenSees(ev')

\* loop body with available == 0: nothing but delay(1)
DaiLoopIdle ==
    /\ At("dai", "loop")
    /\ \E connected \in BOOLEAN :
         LoopContinues(connected, downloadedSize, totalSize)
    /\ 0 \in AvailChoices
    /\ Goto("yield", Ev("yield", "", 0, FALSE))
    /\ UNCHANGED <<Mgr, target, restarted, check, ver>>
    /\ screen' = ScreenSees(ev')

\* if (Update.write(...) != bytesRead) { updateStatus("Write failed");
DaiWriteFailStatus ==
    /\ At("dai", "write_fail")
    /\ Goto("cb_writefail", StatusEv("Write failed"))
    /\ UNCHANGED <<Mgr, target, restarted, check, ver>>
    /\ screen' = ScreenSees(ev')

\* variant that goes on with the loop after the short write
DaiWriteFailReturnResumes ==
    /\ At("dai", "cb_writefail")
    /\ Goto("yield", Ev("yield", "", 0, FALSE))
    /\ UNCHANGED <<Mgr, target, restarted, check, ver>>
    /\ screen' = ScreenSees(ev')

\*   http.end(); return false; }
DaiWriteFailReturn ==
    /\ At("dai", "cb_writefail")
    /\ Goto("abort", Ev("http_end", "", 0, FALSE))
    /\ UNCHANGED <<Mgr, target, restarted, check, ver>>
    /\ screen' = ScreenSees(ev')

\* downloadedSize += bytesRead; updateProgress(downloadedSize, totalSize);
DaiProgress ==
    /\ At("dai", "written")
    /\ downloadedSize' = AddDownloaded(downloadedSize, Top.bytesRead)
    /\ LET p == Percentage(downloadedSize', totalSize) IN
         Step([Top EXCEPT !.pc = "cb_progress", !.lastProg = p,
                          !.progMono = @ /\ p >= Top.lastProg],
              ProgressEv(p))
    /\ UNCHANGED <<updateInProgress, totalSize, target, restarted, check, ver>>
    /\ screen' = ScreenSees(ev')

\* delay(1); // Yield to other tasks
DaiYield ==
    /\ At("dai", "cb_progress")
    /\ Goto("yield", Ev("yield", "", 0, FALSE))
    /\ UNCHANGED <<Mgr, target, restarted, check, ver>>
    /\ screen' = ScreenSees(ev')

\* back to the loop condition
DaiResume ==
    /\ At("dai", "yield")
    /\ Goto("loop", NoEv)
    /\ UNCHANGED <<Mgr, target, restarted, check, ver>>
    /\ screen' = ScreenSees(ev')

\* loop exit; http.end(); downloadedSize == totalSize: return true
DaiLoopExitOk ==
    /\ At("dai", "loop")
    /\ \E connected \in BOOLEAN :
         ~LoopContinues(connected, downloadedSize, totalSize)
    /\ DownloadComplete(downloadedSize, totalSize)
    /\ Step([Top EXCEPT !.pc = "end", !.success = TRUE,
                        !.closedShort = (downloadedSize < totalSize)],
            Ev("http_end", "", 0, TRUE))
    /\ UNCHANGED <<Mgr, target, restarted, check, ver>>
    /\ screen' = ScreenSees(ev')

\* loop exit; http.end(); if (downloadedSize != totalSize) {
\*   updateStatus("Download incomplete");
DaiLoopExitIncomplete ==
    /\ At("dai", "loop")
    /\ \E connected \in BOOLEAN :
         ~LoopContinues(connected, downloadedSize, totalSize)
    /\ ~DownloadComplete(downloadedSize, totalSize)
    /\ Step([Top EXCEPT !.pc = "cb_incomplete",
                        !.closedShort = (downloadedSize < totalSize)],
            StatusEv("Download incomplete"))
    /\ UNCHANGED <<Mgr, target, restarted, check, ver>>
    /\ screen' = ScreenSees(ev')

\*   return false; }
DaiIncompleteReturn ==
    /\ At("dai", "cb_incomplete")
    /\ Goto("abort", NoEv)
    /\ UNCHANGED <<Mgr, target, restarted, check, ver>>
    /\ screen' = ScreenSees(ev')

\* ------------------------- downloadAndInstall, after downloadFirmware returns
\* if (success) { if (Update.end()) {            -- finalize succeeds
DaiEndOk ==
    /\ At("dai", "end")
    /\ target' = "ended"
    /\ Goto("end_ok", Ev("end", "", 0, TRUE))
    /\ UNCHANGED <<Mgr, restarted, check, ver>>
    /\ screen' = ScreenSees(ev')

\* if (success) { if (Update.end()) {            -- finalize fails
DaiEndFail ==
    /\ At("dai", "end")
    /\ Goto("end_fail", Ev("end", "", 0, FALSE))
    /\ UNCHANGED <<Mgr, target, restarted, check, ver>>
    /\ screen' = ScreenSees(ev')

\* updateStatus("Update completed successfully");
DaiCompletedStatus ==
    /\ At("dai", "end_ok")
    /\ Goto("cb_completed", StatusEv("Update completed successfully"))
    /\ UNCHANGED <<Mgr, target, restarted, check, ver>>
    /\ screen' = ScreenSees(ev')

\* updateComplete(true, "Update installed. Restarting...");
DaiCompleteTrue ==
    /\ At("dai", "cb_completed")
    /\ Goto("cb_complete_true",
            CompleteEv(TRUE, "Update installed. Restarting..."))
    /\ UNCHANGED <<Mgr, target, restarted, check, ver>>
    /\ screen' = ScreenSees(ev')

\* delay(2000);
DaiDelay ==
    /\ At("dai", "cb_complete_true")
    /\ Goto("delay", Ev("yield", "", 0, FALSE))
    /\ UNCHANGED <<Mgr, target, restarted, check, ver>>
    /\ screen' = ScreenSees(ev')

\* ESP.restart();
DaiRestart ==
    /\ At("dai", "delay")
    /\ restarted' = TRUE
    /\ Goto("restart", Ev("restart", "", 0, FALSE))
    /\ UNCHANGED <<Mgr, target, check, ver>>
    /\ screen' = ScreenSees(ev')

\* } else { updateStatus("Update failed to finalize");
DaiFinalFailStatus ==
    /\ At("dai", "end_fail")
    /\ Goto("cb_finalfail", StatusEv("Update failed to finalize"))
    /\ UNCHANGED <<Mgr, target, restarted, check, ver>>
    /\ screen' = ScreenSees(ev')

\*   updateComplete(false, "Update finalization failed"); }
DaiCompleteFinal ==
    /\ At("dai", "cb_finalfail")
    /\ Step([Top EXCEPT !.pc = "cb_complete_final", !.nFalse = Sat(@)],
            CompleteEv(FALSE, "Update finalization failed"))
    /\ UNCHANGED <<Mgr, target, restarted, check, ver>>
    /\ screen' = ScreenSees(ev')

\* } else { Update.abort();
DaiAbort ==
    /\ At("dai", "abort")
    /\ target' = "aborted"
    /\ Step([Top EXCEPT !.pc = "aborted", !.abortCalled = TRUE],
            Ev("abort", "", 0, FALSE))
    /\ UNCHANGED <<Mgr, restarted, check, ver>>
    /\ screen' = ScreenSees(ev')

\*   updateStatus("Download failed");
DaiFailedStatus ==
    /\ At("dai", "aborted")
    /\ Goto("cb_failed", StatusEv("Download failed"))
    /\ UNCHANGED <<Mgr, target, restarted, check, ver>>
    /\ screen' = ScreenSees(ev')

\*   updateComplete(false, "Download failed"); }
DaiCompleteFailed ==
    /\ At("dai", "cb_failed")
    /\ Step([Top EXCEPT !.pc = "cb_complete_failed", !.nFalse = Sat(@)],
            CompleteEv(FALSE, "Download failed"))
    /\ UNCHANGED <<Mgr, target, restarted, check, ver>>
    /\ screen' = ScreenSees(ev')

\* updateInProgress = false; return success;
DaiClearReturn ==
    /\ Running /\ Top.fn = "dai"
    /\ Top.pc \in {"cb_complete_final", "cb_complete_failed"}
    /\ updateInProgress' = FALSE
    /\ Return(Top.success)
    /\ UNCHANGED <<totalSize, downloadedSize, target, restarted, check, ver>>
    /\ screen' = ScreenSees(ev')

\* ------------------------------------------- OTAUpdateManager::cancelUpdate
\* if (updateInProgress) is false: nothing happens
CancelNoop ==
    /\ At("cancel", "entry")
    /\ ~CancelActs(updateInProgress)
    /\ Return(FALSE)
    /\ UNCHANGED <<Mgr, target, restarted, check, ver>>
    /\ screen' = ScreenSees(ev')

\* if (updateInProgress) { Update.abort(); updateInProgress = false;
CancelAbort ==
    /\ At("cancel", "entry")
    /\ CancelActs(updateInProgress)
    /\ target' = "aborted"
    /\ updateInProgress' = FALSE
    /\ LET a == IF ClaimedFrames = {} THEN 0 ELSE InnerClaimed
           s1 == IF a = 0 THEN stack
                 ELSE [stack EXCEPT ![a].cancelled = TRUE] IN
         /\ stack' = [s1 EXCEPT ![Len(stack)].pc = "cancel_aborted",
                                ![Len(stack)].att = a]
         /\ ev' = Ev("abort", "", 0, FALSE)
    /\ UNCHANGED <<totalSize, downloadedSize, restarted, check, ver>>
    /\ screen' = ScreenSees(ev')

\*   updateStatus("Update cancelled");
CancelStatus ==
    /\ At("cancel", "cancel_aborted")
    /\ Goto("cb_cancelled", StatusEv("Update cancelled"))
    /\ UNCHANGED <<Mgr, target, restarted, check, ver>>
    /\ screen' = ScreenSees(ev')

\*   updateComplete(false, "Update cancelled by user"); }
CancelComplete ==
    /\ At("cancel", "cb_cancelled")
    /\ LET a == Top.att
           s1 == IF a = 0 THEN stack
                 ELSE [stack EXCEPT ![a].nFalse = Sat(@)] IN
         /\ stack' = [s1 EXCEPT ![Len(stack)].pc = "cb_complete_cancel"]
         /\ ev' = CompleteEv(FALSE, "Update cancelled by user")
    /\ UNCHANGED <<Mgr, target, restarted, check, ver>>
    /\ screen' = ScreenSees(ev')

CancelReturn ==
    /\ At("cancel", "cb_complete_cancel")
    /\ Return(FALSE)
    /\ UNCHANGED <<Mgr, target, restarted, check, ver>>
    /\ screen' = ScreenSees(ev')

\* --------------------------------------------------------------------------
Next ==
    \/ CallDownloadAndInstall
    \/ CallCancelUpdate
    \/ PopFrame
    \/ DaiReject
    \/ DaiRejectReturn
    \/ DaiNoWifi
    \/ DaiNoWifiReturn
    \/ DaiAccept
    \/ DaiBeginOk
    \/ DaiBeginFail
    \/ DaiBeginFailStatus
    \/ DaiBeginFailReturn
    \/ DaiDownloading
    \/ DaiGetFail
    \/ DaiGetOk
    \/ DaiLoopWrite
    \/ DaiLoopIdle
    \/ DaiWriteFailStatus
    \/ DaiWriteFailReturn
    \/ DaiProgress
    \/ DaiYield
    \/ DaiResume
    \/ DaiLoopExitOk
    \/ DaiLoopExitIncomplete
    \/ DaiIncompleteReturn
    \/ DaiEndOk
    \/ DaiEndFail
    \/ DaiCompletedStatus
    \/ DaiCompleteTrue
    \/ DaiDelay
    \/ DaiRestart
    \/ DaiFinalFailStatus
    \/ DaiCompleteFinal
    \/ DaiAbort
    \/ DaiFailedStatus
    \/ DaiCompleteFailed
    \/ DaiClearReturn
    \/ CancelNoop
    \/ CancelAbort
    \/ CancelStatus
    \/ CancelComplete
    \/ CancelReturn

Spec == Init /\ [][Next]_vars

\* ---------------------------------------------------------------- strings
\* A std::string is the sequence of its characters.

IsDigit(c) == c \in {"0", "1", "2", "3", "4", "5", "6", "7", "8", "9"}

DigitVal(c) ==
    CASE c = "0" -> 0 [] c = "1" -> 1 [] c = "2" -> 2 [] c = "3" -> 3
      [] c = "4" -> 4 [] c = "5" -> 5 [] c = "6" -> 6 [] c = "7" -> 7
      [] c = "8" -> 8 [] c = "9" -> 9

\* s.find(p) != std::string::npos
Contains(s, p) ==
    \E i \in 1..(Len(s) - Len(p) + 1) : SubSeq(s, i, i + Len(p) - 1) = p

\* current.find('.', pos) with npos replaced by current.length(); 0-based
FindDot(current, pos) ==
    LET hits == {i \in pos..(Len(current) - 1) : current[i + 1] = "."}
    IN  IF hits = {} THEN Len(current)
        ELSE CHOOSE i \in hits : \A j \in hits : i <= j

\* ------------------------------------------------------- compareVersions()

\* INT_MAX of the 32-bit int std::stoi returns
IntMax == 2147483647

Thrown == [thrown |-> TRUE, val |-> 0]
Value(n) == [thrown |-> FALSE, val |-> n]

\* the digits std::stoi consumes from position i on; -1 when the value
\* leaves the range of int
RECURSIVE StoiFrom(_, _, _)
StoiFrom(part, i, acc) ==
    IF i <= Len(part) /\ IsDigit(part[i])
    THEN IF acc > (IntMax - DigitVal(part[i])) \div 10
         THEN -1
         ELSE StoiFrom(part, i + 1, acc * 10 + DigitVal(part[i]))
    ELSE acc

\* std::stoi(part): converts the leading digits and ignores what follows
\* them; throws std::invalid_argument when there is no leading digit and
\* std::out_of_range when the value does not fit an int.  (Leading
\* whitespace and a sign, which std::stoi also accepts, are outside the
\* alphabets used here.)
Stoi(part) ==
    IF Len(part) = 0 \/ ~IsDigit(part[1]) THEN Thrown
    ELSE IF StoiFrom(part, 1, 0) < 0 THEN Thrown
    ELSE Value(StoiFrom(part, 1, 0))

\* the prefix test without the removal
StripPrefixNever(version) == version

\* if (current[0] == 'v') current = current.substr(1);
StripPrefix(version) ==
    IF Len(version) > 0 /\ version[1] = "v" THEN Tail(version) ELSE version

\* the while loop of parseVersion from position pos (0-based) on
RECURSIVE ParseFrom(_, _, _)
ParseFrom(current, pos, parts) ==
    IF pos < Len(current)
    THEN LET next == FindDot(current, pos)
             n == Stoi(SubSeq(current, pos + 1, next))
         IN  IF n.thrown THEN [thrown |-> TRUE, parts |-> <<>>]
             ELSE ParseFrom(current, next + 1, Append(parts, n.val))
    ELSE [thrown |-> FALSE, parts |-> parts]

parseVersion(version) == ParseFrom(StripPrefix(version), 0, <<>>)

\* padding with ones
PadOnes(parts, n) ==
    parts \o [i \in 1..(n - Len(parts)) |-> 1]

\* while (version.size() < n) version.push_back(0);
Pad(parts, n) ==
    parts \o [i \in 1..(n - Len(parts)) |-> 0]

\* the comparison loop from index i on
RECURSIVE CompareFrom(_, _, _)
CompareFrom(version1, version2, i) ==
    IF i > Len(version1) THEN 0
    ELSE IF version1[i] > version2[i] THEN 1
    ELSE IF version1[i] < version2[i] THEN -1
    ELSE CompareFrom(version1, version2, i + 1)

\* compareVersions(v1, v2): 1, -1 or 0, or the exception std::stoi threw
compareVersions(v1, v2) ==
    LET p1 == parseVersion(v1)
        p2 == parseVersion(v2)
    IN  IF p1.thrown \/ p2.thrown THEN Thrown
        ELSE LET n == IF Len(p1.parts) > Len(p2.parts)
                      THEN Len(p1.parts) ELSE Len(p2.parts)
             IN  Value(CompareFrom(Pad(p1.parts, n), Pad(p2.parts, n), 1))

\* FIRMWARE_VERSION, which the settings screen passes to the constructor
CurrentVersion == <<"1", ".", "0", ".", "0">>

\* the comparison with >= in place of >
isUpdateAvailableNotLess(release) ==
    LET c == compareVersions(release.version, CurrentVersion)
    IN  IF c.thrown THEN Thrown ELSE Value(IF c.val >= 0 THEN 1 ELSE 0)

\* isUpdateAvailable(release)
isUpdateAvailable(release) ==
    LET c == compareVersions(release.version, CurrentVersion)
    IN  IF c.thrown THEN Thrown ELSE Value(IF c.val > 0 THEN 1 ELSE 0)

\* ---------------------------------------------------- parseLatestRelease()

FirmwareExt == <<".", "b", "i", "n">>
FirmwareWord == <<"f", "i", "r", "m", "w", "a", "r", "e">>

\* assetName.find(".bin") != npos || assetName.find("firmware") != npos
IsFirmwareName(assetName) ==
    Contains(assetName, FirmwareExt) \/ Contains(assetName, FirmwareWord)

\* a scan that goes on after a match
AssetLoopBreaksNever(matched) == FALSE

\* the break that ends the scan of the assets
AssetLoopBreaks(matched) == matched

\* for (JsonObject asset : assets) from index i on
RECURSIVE ScanAssets(_, _, _)
ScanAssets(assets, i, release) ==
    IF i > Len(assets) THEN release
    ELSE LET matched == IsFirmwareName(assets[i].name)
             r == IF matched
                  THEN [release EXCEPT !.downloadUrl = assets[i].url,
                                       !.fileSize = assets[i].size]
                  ELSE release
         IN  IF AssetLoopBreaks(matched) THEN r
             ELSE ScanAssets(assets, i + 1, r)

\* the descriptor after a response that deserialized; name, body and
\* publishedAt are copied like version and read by no code modelled here
ParsedRelease(response, release) ==
    ScanAssets(response.assets, 1,
               [release EXCEPT !.version = response.tag_name,
                               !.prerelease = response.prerelease,
                               !.isDraft = response.draft])

\* the value parseLatestRelease returns for a response that deserialized
ParseSucceeds(response, release) ==
    ParsedRelease(response, release).downloadUrl # ""

\* ------------------------------------------ inputs of checkForUpdates()

\* asset names: two that match, two that do not
AssetNames ==
    { <<"f", "w", ".", "b", "i", "n">>,
      <<"f", "i", "r", "m", "w", "a", "r", "e">>,
      <<"b", "i", "n">>,
      <<"n", ".", "t", "x", "t">> }

\* browser_download_url and size of an asset
AssetBodies ==
    { [url |-> "u1", size |-> 0], [url |-> "u2", size |-> 4096] }

Assets ==
    { [name |-> n, url |-> b.url, size |-> b.size] :
          n \in AssetNames, b \in AssetBodies }

AssetLists == UNION { [1..n -> Assets] : n \in 0..MaxAssets }

\* tag_name: newer than, equal to and older than CurrentVersion, one with a
\* component that is no number, and the empty one
TagNames ==
    { <<"v", "1", ".", "1", ".", "0">>,
      <<"v", "1", ".", "0", ".", "0">>,
      <<"0", ".", "1">>,
      <<"1", ".", "x">>,
      <<>> }

Responses ==
    { [tag_name |-> t, draft |-> d, prerelease |-> p, assets |-> a] :
          t \in TagNames, d \in BOOLEAN, p \in BOOLEAN, a \in AssetLists }

\* the GitHubRelease object the caller passes in: default-constructed
\* (empty strings, fileSize indeterminate) or left over from an earlier
\* check
PriorReleases ==
    { [version |-> <<>>, downloadUrl |-> u, fileSize |-> s,
       prerelease |-> FALSE, isDraft |-> FALSE] :
          u \in {"", "old"}, s \in {0, 4096} }

\* const char* GITHUB_API_BASE, and the repository the screen configures
ApiBase == <<"https://api.github.com">>
GithubRepo == <<"magnus188", "/", "trimix-analysator">>

\* the repository handed to the constructor
Repos == {GithubRepo, <<"o", "/", "r">>}

\* snprintf(endpoint, sizeof(endpoint), GITHUB_RELEASES_ENDPOINT, repo)
Endpoint(repo) == <<"/repos/">> \o repo \o <<"/releases/latest">>

\* std::string fullUrl = GITHUB_API_BASE + endpoint;
FullUrl(endpoint) == ApiBase \o endpoint

\* http.begin(secureClient, GITHUB_API_BASE); ... http.GET();
RequestUrl(endpoint) == ApiBase

\* a call checkForUpdates(release) at its entry: the repository of the
\* manager, the response the server will give, the descriptor passed in and
\* a copy of it as it was passed, whether the GET was issued and to which
\* URL, the return value, and the answers of isUpdateAvailable(release) with
\* their number
CheckEntry(r, l) ==
    [pc |-> "entry", repo |-> GithubRepo, response |-> r, release |-> l,
     prior |-> l, requested |-> FALSE, url |-> <<>>, retval |-> FALSE,
     available |-> Value(0), asked |-> 0]

InitCheck ==
    /\ InitManager
    /\ ver = NoVer
    /\ screen = NoScreen
    /\ check \in { [CheckEntry(r, l) EXCEPT !.repo = g] :
                      r \in Responses, l \in PriorReleases, g \in Repos }

\* ------------------------------------------------------ checkForUpdates()

CheckAt(p) == check.pc = p

CheckGoto(p, e) ==
    /\ check' = [check EXCEPT !.pc = p]
    /\ ev' = e

\* WiFi.status() != WL_CONNECTED, the status reported, and no return
CheckNoWifiGoesOn ==
    /\ CheckAt("entry")
    /\ CheckGoto("cb_checking", StatusEv("WiFi not connected"))
    /\ UNCHANGED <<Mgr, target, stack, restarted, ver, screen>>

\* WiFi.status() != WL_CONNECTED
CheckNoWifi ==
    /\ CheckAt("entry")
    /\ CheckGoto("cb_nowifi", StatusEv("WiFi not connected"))
    /\ UNCHANGED <<Mgr, target, stack, restarted, ver, screen>>

CheckStart ==
    /\ CheckAt("entry")
    /\ CheckGoto("cb_checking", StatusEv("Checking for updates..."))
    /\ UNCHANGED <<Mgr, target, stack, restarted, ver, screen>>

\* makeGitHubRequest returned false and no status is reported
CheckRequestFailSilent ==
    /\ CheckAt("cb_checking")
    /\ check' = [check EXCEPT !.pc = "cb_connfail", !.requested = TRUE,
                            !.url = RequestUrl(Endpoint(check.repo))]
    /\ ev' = NoEv
    /\ UNCHANGED <<Mgr, target, stack, restarted, ver, screen>>

\* makeGitHubRequest returned false
CheckRequestFail ==
    /\ CheckAt("cb_checking")
    /\ check' = [check EXCEPT !.pc = "cb_connfail", !.requested = TRUE,
                            !.url = RequestUrl(Endpoint(check.repo))]
    /\ ev' = StatusEv("Failed to connect to GitHub")
    /\ UNCHANGED <<Mgr, target, stack, restarted, ver, screen>>

\* deserializeJson reported an error: the descriptor is not touched
CheckJsonError ==
    /\ CheckAt("cb_checking")
    /\ check' = [check EXCEPT !.pc = "cb_parsefail", !.requested = TRUE,
                            !.url = RequestUrl(Endpoint(check.repo))]
    /\ ev' = StatusEv("Failed to parse release data")
    /\ UNCHANGED <<Mgr, target, stack, restarted, ver, screen>>

\* parseLatestRelease returned false after writing the descriptor
CheckNoAsset ==
    /\ CheckAt("cb_checking")
    /\ ~ParseSucceeds(check.response, check.release)
    /\ check' = [check EXCEPT
           !.pc = "cb_parsefail", !.requested = TRUE,
                            !.url = RequestUrl(Endpoint(check.repo)),
           !.release = ParsedRelease(check.response, check.release)]
    /\ ev' = StatusEv("Failed to parse release data")
    /\ UNCHANGED <<Mgr, target, stack, restarted, ver, screen>>

CheckParsed ==
    /\ CheckAt("cb_checking")
    /\ ParseSucceeds(check.response, check.release)
    /\ check' = [check EXCEPT
           !.pc = "cb_completed", !.requested = TRUE,
                            !.url = RequestUrl(Endpoint(check.repo)),
           !.release = ParsedRelease(check.response, check.release)]
    /\ ev' = StatusEv("Update check completed")
    /\ UNCHANGED <<Mgr, target, stack, restarted, ver, screen>>

CheckReturnFalse ==
    /\ check.pc \in {"cb_nowifi", "cb_connfail", "cb_parsefail"}
    /\ check' = [check EXCEPT !.pc = "done", !.retval = FALSE]
    /\ ev' = Ev("return", "", 0, FALSE)
    /\ UNCHANGED <<Mgr, target, stack, restarted, ver, screen>>

CheckReturnTrue ==
    /\ CheckAt("cb_completed")
    /\ check' = [check EXCEPT !.pc = "done", !.retval = TRUE]
    /\ ev' = Ev("return", "", 0, TRUE)
    /\ UNCHANGED <<Mgr, target, stack, restarted, ver, screen>>

\* the caller asks isUpdateAvailable(release) after a successful check
\* (an exception of std::stoi leaves the call and is caught nowhere)
CallIsUpdateAvailable ==
    /\ CheckAt("done")
    /\ check.retval
    /\ check' = [check EXCEPT
           !.pc = IF isUpdateAvailable(check.release).thrown
                  THEN "terminated" ELSE "queried",
           !.available = isUpdateAvailable(check.release),
           !.asked = 1]
    /\ ev' = NoEv
    /\ UNCHANGED <<Mgr, target, stack, restarted, ver, screen>>

\* a further call isUpdateAvailable(release) with the same descriptor
CallIsUpdateAvailableAgain ==
    /\ CheckAt("queried")
    /\ screen.pc = "none"
    /\ check.asked < MaxQueries
    /\ check' = [check EXCEPT
           !.available = isUpdateAvailable(check.release),
           !.asked = check.asked + 1]
    /\ ev' = NoEv
    /\ UNCHANGED <<Mgr, target, stack, restarted, ver, screen>>

NextCheck ==
    \/ CheckNoWifi
    \/ CheckStart
    \/ CheckRequestFail
    \/ CheckJsonError
    \/ CheckNoAsset
    \/ CheckParsed
    \/ CheckReturnFalse
    \/ CheckReturnTrue
    \/ CallIsUpdateAvailable
    \/ CallIsUpdateAvailableAgain

SpecCheck == InitCheck /\ [][NextCheck]_vars

\* ------------------------------------------- inputs of compareVersions()

VersionChars == {"v", "0", "1", "."}

\* dot-separated non-negative integers, optional leading "v"
ValidVersion(s) ==
    LET t == IF Len(s) > 0 /\ s[1] = "v" THEN Tail(s) ELSE s
    IN  /\ Len(t) > 0
        /\ \A i \in 1..Len(t) : IsDigit(t[i]) \/ t[i] = "."
        /\ IsDigit(t[1]) /\ IsDigit(t[Len(t)])
        /\ \A i \in 1..(Len(t) - 1) : ~(t[i] = "." /\ t[i + 1] = ".")

ExampleVersions ==
    { <<"v", "1", ".", "2">>, <<"1", ".", "2", ".", "0">>,
      <<"2", ".", "0">>, <<"1", ".", "9", ".", "9">>,
      <<"1", ".", "0", ".", "0">>, <<"1", ".", "0", ".", "1">> }

VersionInputs ==
    { s \in UNION { [1..n -> VersionChars] : n \in 1..MaxVerLen } :
          ValidVersion(s) }
    \cup ExampleVersions

InitVer ==
    /\ InitManager
    /\ check = NoCheck
    /\ screen = NoScreen
    /\ ver \in { [pc |-> "ready", a |-> a, b |-> b, res |-> Value(0)] :
                    a \in VersionInputs, b \in VersionInputs }

\* one call compareVersions(a, b)
CallCompareVersions ==
    /\ ver.pc = "ready"
    /\ ver' = [ver EXCEPT !.pc = "done",
                          !.res = compareVersions(ver.a, ver.b)]
    /\ ev' = NoEv
    /\ UNCHANGED <<Mgr, target, stack, restarted, check, screen>>

NextVer == CallCompareVersions

SpecVer == InitVer /\ [][NextVer]_vars

\* ------------------------------ compareVersions() on three version strings

OrdInputs ==
    { s \in UNION { [1..n -> VersionChars] : n \in 1..MaxOrdLen } :
          ValidVersion(s) }

InitOrd ==
    /\ InitManager
    /\ check = NoCheck
    /\ screen = NoScreen
    /\ ver \in { [pc |-> "ready", a |-> a, b |-> b, c |-> c,
                  aa |-> Value(0), ab |-> Value(0), ba |-> Value(0),
                  bc |-> Value(0), ac |-> Value(0)] :
                    a \in OrdInputs, b \in OrdInputs, c \in OrdInputs }

\* the calls compareVersions(a, a), (a, b), (b, a), (b, c) and (a, c)
CallCompareTriple ==
    /\ ver.pc = "ready"
    /\ ver' = [ver EXCEPT !.pc = "done",
                          !.aa = compareVersions(ver.a, ver.a),
                          !.ab = compareVersions(ver.a, ver.b),
                          !.ba = compareVersions(ver.b, ver.a),
                          !.bc = compareVersions(ver.b, ver.c),
                          !.ac = compareVersions(ver.a, ver.c)]
    /\ ev' = NoEv
    /\ UNCHANGED <<Mgr, target, stack, restarted, check, screen>>

NextOrd == CallCompareTriple

SpecOrd == InitOrd /\ [][NextOrd]_vars

\* ------------------------- compareVersions() on arbitrary version strings

AnyChars == {"v", "x", "0", "1", "."}

\* every string up to MaxAnyLen characters, the empty one included
AnyVersions == UNION { [1..n -> AnyChars] : n \in 0..MaxAnyLen }

\* second arguments: the first without its first character, and three
\* well-formed versions
AnyPeers(a) ==
    { <<"0">>, <<"0", ".", "0", ".", "0">>, CurrentVersion }
    \cup (IF Len(a) > 0 THEN {Tail(a)} ELSE {})

InitAny ==
    /\ InitManager
    /\ check = NoCheck
    /\ screen = NoScreen
    /\ ver \in UNION { { [pc |-> "ready", a |-> a, b |-> b,
                            res |-> Value(0)] : b \in AnyPeers(a) } :
                          a \in AnyVersions }

NextAny == CallCompareVersions

SpecAny == InitAny /\ [][NextAny]_vars

\* ------------------------------------------------- UpdateSettingsScreen
\* The screen's handlers run to completion one after the other: each builds
\* an OTAUpdateManager of its own and calls it synchronously, and the
\* callbacks it installs only write labels and the updating flag.

\* the GitHubRelease a handler default-constructs: empty strings, fileSize
\* indeterminate
FreshReleases == { l \in PriorReleases : l.downloadUrl = "" }

\* updateAvailable(false), updating(false); lastCheck names the outcome of
\* the latest checkForUpdates() that ran: "none", "failed", "latest", "newer";
\* updateUrl is the member of that name, and foundSize the release.fileSize
\* of the check that filled it (the handler's local release holds it, no
\* member does)
InitScreen ==
    /\ InitManager
    /\ check = NoCheck
    /\ ver = NoVer
    /\ screen = [pc |-> "idle", updateAvailable |-> FALSE,
                 updating |-> FALSE, lastCheck |-> "none",
                 updateUrl |-> "", foundSize |-> 0]

\* OTAUpdateManager otaManager(GITHUB_REPO, currentVersion);
NewManager ==
    /\ updateInProgress' = FALSE
    /\ totalSize' = 0
    /\ downloadedSize' = 0

\* checkForUpdates(): if (updating) return;
ScreenCheckIgnored ==
    /\ screen.pc = "idle" /\ ~restarted
    /\ screen.updating
    /\ ev' = Ev("ignored", "checkForUpdates", 0, FALSE)
    /\ UNCHANGED <<Mgr, target, stack, restarted, check, ver, screen>>

\* checkForUpdates() up to the call otaManager.checkForUpdates(release)
ScreenCheckCall ==
    /\ screen.pc = "idle" /\ ~restarted
    /\ ~screen.updating
    /\ NewManager
    /\ check' \in { CheckEntry(r, l) : r \in Responses, l \in FreshReleases }
    /\ screen' = [screen EXCEPT !.pc = "checking"]
    /\ ev' = Ev("call", "checkForUpdates", 0, FALSE)
    /\ UNCHANGED <<target, stack, restarted, ver>>

\* the else branch: "Failed to check for updates"; updateUI();
ScreenCheckFailed ==
    /\ screen.pc = "checking"
    /\ check.pc = "done" /\ ~check.retval
    /\ screen' = [screen EXCEPT !.pc = "idle", !.lastCheck = "failed"]
    /\ check' = NoCheck
    /\ ev' = Ev("label", "Failed to check for updates", 0, FALSE)
    /\ UNCHANGED <<Mgr, target, stack, restarted, ver>>

\* updateAvailable = true / false by the answer of isUpdateAvailable();
\* with true: latestVersion = release.version;
\* updateUrl = release.downloadUrl; then updateUI();
ScreenCheckDone ==
    /\ screen.pc = "checking"
    /\ check.pc = "queried"
    /\ screen' = [screen EXCEPT
           !.pc = "idle",
           !.updateAvailable = (check.available.val = 1),
           !.lastCheck = IF check.available.val = 1
                         THEN "newer" ELSE "latest",
           !.updateUrl = IF check.available.val = 1
                         THEN check.release.downloadUrl ELSE @,
           !.foundSize = IF check.available.val = 1
                         THEN check.release.fileSize ELSE @]
    /\ check' = NoCheck
    /\ ev' = Ev("label", IF check.available.val = 1
                         THEN "New version available"
                         ELSE "You have the latest version", 0, FALSE)
    /\ UNCHANGED <<Mgr, target, stack, restarted, ver>>

\* downloadUpdate(): if (!updateAvailable || updating) return;
ScreenDownloadIgnored ==
    /\ screen.pc = "idle" /\ ~restarted
    /\ ~screen.updateAvailable \/ screen.updating
    /\ ev' = Ev("ignored", "downloadUpdate", 0, FALSE)
    /\ UNCHANGED <<Mgr, target, stack, restarted, check, ver, screen>>

\* the descriptor downloadUpdate() builds: release.downloadUrl = updateUrl;
\* release.fileSize = 0; // Will be determined during download
ScreenRelease ==
    [downloadUrl |-> screen.updateUrl, fileSize |-> 0]

\* downloadUpdate(): updating = true; ... the descriptor;
\* otaManager.downloadAndInstall(release);
ScreenDownloadCall ==
    /\ screen.pc = "idle" /\ ~restarted
    /\ screen.updateAvailable /\ ~screen.updating
    /\ NewManager
    /\ screen' = [screen EXCEPT !.pc = "downloading", !.updating = TRUE]
    /\ stack' = <<Frame("dai", ScreenRelease.fileSize)>>
    /\ ev' = Ev("call", "downloadAndInstall", ScreenRelease.fileSize, FALSE)
    /\ UNCHANGED <<target, restarted, check, ver>>

\* downloadAndInstall() returned and downloadUpdate() with it
ScreenDownloadReturn ==
    /\ screen.pc = "downloading"
    /\ Running /\ Top.pc = "done"
    /\ stack' = Pop
    /\ screen' = [screen EXCEPT !.pc = "idle"]
    /\ ev' = NoEv
    /\ UNCHANGED <<Mgr, target, restarted, check, ver>>

\* the screen's handlers and the manager code they run; with
\* release.fileSize = 0 the download loop's body is never entered
NextScreen ==
    \/ ScreenCheckIgnored
    \/ ScreenCheckCall
    \/ CheckNoWifi
    \/ CheckStart
    \/ CheckRequestFail
    \/ CheckJsonError
    \/ CheckNoAsset
    \/ CheckParsed
    \/ CheckReturnFalse
    \/ CheckReturnTrue
    \/ CallIsUpdateAvailable
    \/ ScreenCheckFailed
    \/ ScreenCheckDone
    \/ ScreenDownloadIgnored
    \/ ScreenDownloadCall
    \/ DaiNoWifi
    \/ DaiNoWifiReturn
    \/ DaiAccept
    \/ DaiBeginOk
    \/ DaiBeginFail
    \/ DaiBeginFailStatus
    \/ DaiBeginFailReturn
    \/ DaiDownloading
    \/ DaiGetFail
    \/ DaiGetOk
    \/ DaiLoopExitOk
    \/ DaiEndOk
    \/ DaiEndFail
    \/ DaiCompletedStatus
    \/ DaiCompleteTrue
    \/ DaiDelay
    \/ DaiRestart
    \/ DaiFinalFailStatus
    \/ DaiCompleteFinal
    \/ DaiAbort
    \/ DaiFailedStatus
    \/ DaiCompleteFailed
    \/ DaiClearReturn
    \/ ScreenDownloadReturn

SpecScreen == InitScreen /\ [][NextScreen]_vars

\* ---------------------------------------------------------------- fairness
\* One update at a time: user code starts downloadAndInstall() from the top
\* level and may call cancelUpdate() from there or from any callback.
CallTopLevel == Len(stack) = 0 /\ CallDownloadAndInstall

NextLive ==
    \/ CallTopLevel
    \/ CallCancelUpdate
    \/ PopFrame
    \/ DaiNoWifi
    \/ DaiNoWifiReturn
    \/ DaiAccept
    \/ DaiBeginOk
    \/ DaiBeginFail
    \/ DaiBeginFailStatus
    \/ DaiBeginFailReturn
    \/ DaiDownloading
    \/ DaiGetFail
    \/ DaiGetOk
    \/ DaiLoopWrite
    \/ DaiLoopIdle
    \/ DaiWriteFailStatus
    \/ DaiWriteFailReturn
    \/ DaiProgress
    \/ DaiYield
    \/ DaiResume
    \/ DaiLoopExitOk
    \/ DaiLoopExitIncomplete
    \/ DaiIncompleteReturn
    \/ DaiEndOk
    \/ DaiEndFail
    \/ DaiCompletedStatus
    \/ DaiCompleteTrue
    \/ DaiDelay
    \/ DaiRestart
    \/ DaiFinalFailStatus
    \/ DaiCompleteFinal
    \/ DaiAbort
    \/ DaiFailedStatus
    \/ DaiCompleteFailed
    \/ DaiClearReturn
    \/ CancelNoop
    \/ CancelAbort
    \/ CancelStatus
    \/ CancelComplete
    \/ CancelReturn

\* The activation at depth i takes a step or returns: the code is sequential
\* and a callback or a yield that was entered comes back.
StepAt(i) == Len(stack) = i /\ NextLive /\ Len(stack') <= i

\* The peer of the download at depth i delivers data or closes: the loop
\* condition sees available() > 0, or connected() false.
PeerActs(i) ==
    /\ Len(stack) = i
    /\ (DaiLoopWrite \/ DaiLoopExitOk \/ DaiLoopExitIncomplete)

SpecLive ==
    /\ Init /\ [][NextLive]_vars
    /\ \A i \in 1..MaxStack : SF_vars(StepAt(i)) /\ SF_vars(PeerActs(i))

\* ===========================================================================
\* Properties
\* ===========================================================================
\* the step is taken by the activation on top of the stack (no call, no pop)
OwnStep == Running /\ Len(stack') = Len(stack)
Returned(f) == f.fn = "dai" /\ f.pc = "done"
Frames == { stack[i] : i \in 1..Len(stack) }

\* C1: a downloadAndInstall() entered while updateInProgress is true returns
\* false, leaves updateInProgress, totalSize and downloadedSize unchanged,
\* performs no begin/write/end/abort on the update target and fires no
\* completion callback: its only effects are a status message and the return.
C1_RejectedCallChangesNothing ==
    [][ ( /\ OwnStep
          /\ Top.fn = "dai"
          /\ (Top.pc = "entry" /\ updateInProgress) \/ Top.rejected )
        => ( /\ UNCHANGED <<Mgr, target, restarted>>
             /\ ev'.op \in {"status", "return"}
             /\ Top'.rejected
             /\ Top'.nFalse = 0
             /\ Top'.pc = "done" => Top'.retval = FALSE ) ]_vars

\* a call entered during a running download was rejected and returned false
C1_Witness ==
    /\ Len(stack) = 2
    /\ Top.fn = "dai" /\ Top.rejected /\ Top.pc = "done" /\ ~Top.retval
    /\ stack[1].fn = "dai" /\ stack[1].pc = "cb_progress"
    /\ updateInProgress

\* C2: there are never two downloadAndInstall() activations that both set the
\* in-progress guard and have not yet returned.
C2_AtMostOneActivation ==
    Cardinality({ i \in ClaimedFrames : stack[i].pc # "done" }) <= 1

\* C3: downloadedSize <= totalSize in every reachable state.
C3_DownloadedWithinTotal == downloadedSize <= totalSize

\* C4: every downloadAndInstall() that passed the in-progress guard and
\* returned (so did not install) fired completion(false) exactly once.
C4_FailureCompletesExactlyOnce ==
    \A f \in Frames : (Returned(f) /\ ~f.rejected) => f.nFalse = 1

\* C5: a downloadAndInstall() that returns after Update.begin() succeeded has
\* called Update.abort().
C5_FailureAfterBeginAborts ==
    \A f \in Frames : (Returned(f) /\ f.begun) => f.abortCalled

C7_CancelStopsDownload ==
    [][ /\ (OwnStep /\ Top.fn = "cancel" /\ Top.pc = "cb_cancelled")
           => ev' = CompleteEv(FALSE, "Update cancelled by user")
        /\ (~updateInProgress /\ updateInProgress')
           => ev' = StatusEv("Starting download...")
        /\ (OwnStep /\ Top.fn = "dai" /\ Top.wroteAfterCancel)
           => ev'.op # "write" ]_vars

\* C8: once cancelUpdate() has acted on a running attempt, no further chunk
\* of that attempt is written to the update target.
C8_NoWriteAfterCancel ==
    [][ (OwnStep /\ Top.fn = "dai" /\ Top.cancelled)
        => ~(ev'.op = "write" /\ ev'.ok) ]_vars

\* C9: cancelUpdate() entered while updateInProgress is false changes
\* updateInProgress, totalSize and downloadedSize not, does not call abort()
\* and fires no callback: it just returns.
C9_CancelNoopWhenIdle ==
    [][ (OwnStep /\ Top.fn = "cancel" /\ Top.pc = "entry"
         /\ ~updateInProgress)
        => ( /\ UNCHANGED <<Mgr, target, restarted>>
             /\ ev'.op = "return"
             /\ Top'.pc = "done" ) ]_vars

\* cancelUpdate() returned without acting, called inside a running download
C9_Witness ==
    /\ Len(stack) = 2
    /\ Top.fn = "cancel" /\ Top.pc = "done" /\ Top.att = 0
    /\ stack[1].fn = "dai" /\ stack[1].pc = "cb_progress"
    /\ ~updateInProgress

\* C10: when downloadFirmware() succeeds for an expected size > 0, the values
\* it passed to the progress callback never decreased and the last is 100.
C10_ProgressMonotoneTo100 ==
    \A f \in Frames :
        (f.fn = "dai" /\ f.pc = "end" /\ f.size > 0)
            => f.progMono /\ f.lastProg = 100

\* C11: every value passed to the progress callback lies in 0..100.
C11_ProgressWithinRange ==
    ev.op = "progress" => (ev.val >= 0 /\ ev.val <= 100)

\* C12: the progress callback receives 100 only when downloadedSize equals
\* totalSize, so a reported 100 is not followed by "Download incomplete".
C12_HundredOnlyWhenComplete ==
    (ev.op = "progress" /\ ev.val = 100) => downloadedSize = totalSize

\* C14: an attempt for an expected size > 0 that delivers completion(true)
\* (all bytes arrived, every write was full, end() succeeded) has delivered
\* no completion(false).
C14_SuccessCompletesOnlyTrue ==
    \A f \in Frames :
        (f.fn = "dai" /\ f.size > 0
         /\ f.pc \in {"cb_complete_true", "delay", "restart"})
            => f.nFalse = 0

\* C15: updateInProgress is cleared only after a completion callback of the
\* attempt has fired, and it is true at every status and progress callback
\* an attempt makes before its completion callback.
C15_GuardHeldUntilCompletion ==
    [][ /\ (updateInProgress /\ ~updateInProgress')
           => stack[InnerClaimed].nFalse >= 1
        /\ (ev'.op \in {"status", "progress"} /\ Len(stack') > 0
            /\ Top'.fn = "dai" /\ Top'.claimed /\ Top'.nFalse = 0)
           => updateInProgress' ]_vars

\* C16: when a downloadAndInstall() that passed the guard has returned,
\* updateInProgress is false; it is false whenever no call is running.
C16_GuardNeverStuck ==
    /\ Len(stack) = 0 => ~updateInProgress
    /\ (Running /\ Returned(Top) /\ ~Top.rejected) => ~updateInProgress

\* an attempt that set the guard failed to begin the target and returned
C16_Witness ==
    /\ Running /\ Returned(Top) /\ Top.claimed /\ ~Top.begun
    /\ ev.op = "return" /\ ~updateInProgress


\* the assets of the response, and those whose name marks a firmware file
RespAssets == check.response.assets
Matching == {i \in 1..Len(RespAssets) : IsFirmwareName(RespAssets[i].name)}
\* the first of them in list order
IsFirstMatch(i) == i \in Matching /\ \A j \in Matching : i <= j

\* C13: a release whose matching firmware asset has size 0 makes
\* checkForUpdates() fail, and no downloadAndInstall() attempt reaches
\* Update.end() or the restart with totalSize = 0 and zero bytes written.
C13_ZeroSizeRejected ==
    /\ (check.pc = "done"
        /\ \E i \in Matching : IsFirstMatch(i) /\ RespAssets[i].size = 0)
           => ~check.retval
    /\ ~(ev.op \in {"end", "restart"} /\ totalSize = 0 /\ downloadedSize = 0)

\* C17: when no asset name of the response contains ".bin" or "firmware",
\* checkForUpdates() returns false and the manager's state is untouched,
\* whatever the descriptor passed in held before.
C17_NoAssetFails ==
    (check.pc = "done" /\ Matching = {})
        => (~check.retval /\ Mgr = <<FALSE, 0, 0>>)

\* C18: after a successful checkForUpdates() on a response with a matching
\* asset, downloadUrl and fileSize are those of the first matching asset in
\* list order; a later matching asset does not override them.
C18_FirstMatchWins ==
    (check.pc = "done" /\ check.retval)
        => \A i \in Matching :
               IsFirstMatch(i)
                   => /\ check.release.downloadUrl = RespAssets[i].url
                      /\ check.release.fileSize = RespAssets[i].size

\* a successful check of a response with two matching assets that differ in
\* url and size
C18_Witness ==
    /\ check.pc = "done" /\ check.retval
    /\ Matching = {1, 2}
    /\ RespAssets[1].url # RespAssets[2].url
    /\ RespAssets[1].size # RespAssets[2].size

\* C19: a release fetched with draft = true is never reported as an
\* available update by checkForUpdates() followed by isUpdateAvailable().
C19_DraftNeverAvailable ==
    ~(check.pc = "queried" /\ check.response.draft
      /\ ~check.available.thrown /\ check.available.val = 1)

\* the integer sequence a valid version string denotes: the fields between
\* the dots of the string without its "v", read as decimal numbers
RefBody(s) == IF s[1] = "v" THEN SubSeq(s, 2, Len(s)) ELSE s
RefDots(t) == {i \in 1..Len(t) : t[i] = "."}
RefNthDot(t, k) ==
    IF k = 0 THEN 0
    ELSE IF k > Cardinality(RefDots(t)) THEN Len(t) + 1
    ELSE CHOOSE i \in RefDots(t) :
             Cardinality({j \in RefDots(t) : j < i}) = k - 1
RECURSIVE RefDecimal(_)
RefDecimal(d) ==
    IF Len(d) = 0 THEN 0
    ELSE 10 * RefDecimal(SubSeq(d, 1, Len(d) - 1)) + DigitVal(d[Len(d)])
RefSequence(s) ==
    LET t == RefBody(s)
    IN  [k \in 1..(Cardinality(RefDots(t)) + 1) |->
            RefDecimal(SubSeq(t, RefNthDot(t, k - 1) + 1,
                              RefNthDot(t, k) - 1))]
\* component i of a sequence padded with trailing zeros
RefAt(q, i) == IF i <= Len(q) THEN q[i] ELSE 0
\* lexicographic comparison of the padded sequences
RefCompare(a, b) ==
    LET qa == RefSequence(a)
        qb == RefSequence(b)
        n == IF Len(qa) > Len(qb) THEN Len(qa) ELSE Len(qb)
        diff == {i \in 1..n : RefAt(qa, i) # RefAt(qb, i)}
    IN  IF diff = {} THEN 0
        ELSE LET k == CHOOSE i \in diff : \A j \in diff : i <= j
             IN  IF RefAt(qa, k) > RefAt(qb, k) THEN 1 ELSE -1

\* C20: for valid version strings a and b, compareVersions(a, b) is the
\* lexicographic comparison of their integer sequences after padding the
\* shorter with trailing zeros; ("v1.2", "1.2.0") is equal, ("2.0", "1.9.9")
\* is greater and ("1.0.0", "1.0.1") is less.
C20_CompareIsLexicographic ==
    ver.pc = "done" =>
        /\ ValidVersion(ver.a) /\ ValidVersion(ver.b)
        /\ ~ver.res.thrown
        /\ ver.res.val = RefCompare(ver.a, ver.b)
        /\ (ver.a = <<"v", "1", ".", "2">>
            /\ ver.b = <<"1", ".", "2", ".", "0">>) => ver.res.val = 0
        /\ (ver.a = <<"2", ".", "0">>
            /\ ver.b = <<"1", ".", "9", ".", "9">>) => ver.res.val = 1
        /\ (ver.a = <<"1", ".", "0", ".", "0">>
            /\ ver.b = <<"1", ".", "0", ".", "1">>) => ver.res.val = -1

\* a prefixed one-component version compared with its three-component
\* spelling: the prefix is stripped, the shorter sequence is padded
C20_Witness ==
    /\ ver.pc = "done"
    /\ ver.a = <<"v", "1">>
    /\ ver.b = <<"1", ".", "0", ".", "0">>
    /\ ver.res = Value(0)


\* C21: over valid version strings compareVersions is a strict weak
\* ordering: compare(a, a) is equal, compare(a, b) is greater exactly when
\* compare(b, a) is less, "less" is transitive and "equal" is transitive.
C21_StrictWeakOrdering ==
    ver.pc = "done" =>
        /\ ~ver.aa.thrown /\ ~ver.ab.thrown /\ ~ver.ba.thrown
        /\ ~ver.bc.thrown /\ ~ver.ac.thrown
        /\ ver.aa.val = 0
        /\ ver.ab.val = 1 <=> ver.ba.val = -1
        /\ ver.ab.val = 0 <=> ver.ba.val = 0
        /\ (ver.ab.val = -1 /\ ver.bc.val = -1) => ver.ac.val = -1
        /\ (ver.ab.val = 0 /\ ver.bc.val = 0) => ver.ac.val = 0

\* three spellings of one version, with the prefix and with a trailing zero
\* component, found equal pairwise
C21_Witness ==
    /\ ver.pc = "done"
    /\ ver.a = <<"v", "1">> /\ ver.b = <<"1", ".", "0">> /\ ver.c = <<"1">>
    /\ ver.ab = Value(0) /\ ver.bc = Value(0) /\ ver.ac = Value(0)


\* a well-formed version without prefix: dot-separated runs of digits
PlainVersion(s) == ValidVersion(s) /\ IsDigit(s[1])

\* C22: for every single non-numeric marker character c and valid version
\* s, compareVersions(c + s, s) is equal.
C22_AnyMarkerIgnored ==
    (/\ ver.pc = "done"
     /\ Len(ver.a) > 0
     /\ ~IsDigit(ver.a[1]) /\ ver.a[1] # "."
     /\ ver.b = Tail(ver.a)
     /\ PlainVersion(ver.b))
        => (~ver.res.thrown /\ ver.res.val = 0)

\* a version that starts with a digit and has a component that is not a
\* run of digits: "1.x", "1..1", "1.1x"
MalformedComponent(s) ==
    Len(s) > 0 /\ IsDigit(s[1]) /\ ~ValidVersion(s)

\* C23: comparing a version that has a malformed component returns to the
\* caller with a parse-error outcome: no exception leaves the call and the
\* result is not one of the orderings less, equal, greater.
C23_MalformedIsParseError ==
    (ver.pc = "done" /\ MalformedComponent(ver.a) /\ PlainVersion(ver.b))
        => (~ver.res.thrown /\ ver.res.val \notin {-1, 0, 1})

\* C24: the empty version string is rejected: compareVersions does not
\* find "" equal to "0" or "0.0.0".
C24_EmptyRejected ==
    (/\ ver.pc = "done"
     /\ ver.a = <<>>
     /\ ver.b \in { <<"0">>, <<"0", ".", "0", ".", "0">> })
        => ~(~ver.res.thrown /\ ver.res.val = 0)


\* C25: isUpdateAvailable(release) returns true exactly when
\* compareVersions(release.version, currentVersion) is greater, changes no
\* state of the manager and fires no callback, and a repeated call with the
\* same descriptor returns the same value.
C25_IsUpdateAvailablePure ==
    [][ check'.asked > check.asked
        => ( /\ UNCHANGED <<Mgr, target, stack, restarted>>
             /\ ev'.op = "none"
             /\ check'.release = check.release
             /\ check'.available = Value(1)
                    <=> compareVersions(check.release.version,
                                        CurrentVersion) = Value(1)
             /\ check.asked > 0 => check'.available = check.available ) ]_vars

\* a second call for a release newer than the running firmware
C25_Witness ==
    /\ check.pc = "queried" /\ check.asked = 2
    /\ check.available = Value(1)

\* C26: with WiFi not connected checkForUpdates() reports "WiFi not
\* connected" and returns false at once: no HTTP request is issued and the
\* caller's descriptor is left as it was passed in.
C26_NotConnectedFailsAtOnce ==
    [][ (ev.op = "status" /\ ev.msg = "WiFi not connected"
         /\ check.pc # "entry")
        => ( /\ ~check.requested /\ check.release = check.prior
             /\ check'.pc = "done" /\ ~check'.retval
             /\ ~check'.requested /\ check'.release = check'.prior
             /\ ev'.op = "return" ) ]_vars

\* checkForUpdates() has returned false without a request, the descriptor
\* still holding the url of an earlier check
C26_Witness ==
    /\ check.pc = "done" /\ ~check.retval /\ ~check.requested
    /\ check.release.downloadUrl = "old"
    /\ check.release = check.prior

CheckFailureMessages ==
    { "WiFi not connected", "Failed to connect to GitHub",
      "Failed to parse release data" }

\* C27: no step of checkForUpdates() changes updateInProgress, totalSize or
\* downloadedSize (nor the update target), and every failure is a status
\* message followed by the return of false.
C27_CheckLeavesManagerAlone ==
    [][ check.pc \in {"entry", "cb_nowifi", "cb_checking", "cb_connfail",
                      "cb_parsefail", "cb_completed"}
        => ( /\ UNCHANGED <<Mgr, target, stack, restarted>>
             /\ check'.pc \in {"cb_nowifi", "cb_checking", "cb_connfail",
                               "cb_parsefail", "cb_completed", "done"}
             /\ (check'.pc = "done" /\ ~check'.retval)
                    => ( /\ ev.op = "status"
                         /\ ev.msg \in CheckFailureMessages
                         /\ ev'.op = "return" )
             /\ check'.pc \in {"cb_nowifi", "cb_connfail", "cb_parsefail"}
                    => ( /\ ev'.op = "status"
                         /\ ev'.msg \in CheckFailureMessages ) ) ]_vars

\* checkForUpdates() has returned false after the request failed or the
\* response was not usable
C27_Witness ==
    /\ check.pc = "done" /\ ~check.retval /\ check.requested
    /\ Mgr = <<FALSE, 0, 0>>


\* C28: the settings screen starts downloadAndInstall() only when the
\* latest check that ran succeeded and found a version greater than the
\* running one; after a failed check no download starts until a later
\* check reports a newer version.
C28_DownloadOnlyAfterNewer ==
    [][ (screen.pc = "idle" /\ screen'.pc = "downloading")
        => screen.lastCheck = "newer" ]_vars

\* C29: after downloadUpdate() has returned without a restart the screen's
\* updating flag is false, whatever the outcome of the attempt.
C29_UpdatingClearedOnReturn ==
    [][ (screen.pc = "downloading" /\ screen'.pc = "idle")
        => ~screen'.updating ]_vars


\* C30: ESP.restart() is called only in an attempt that wrote exactly the
\* expected number of bytes, whose Update.end() returned true and whose
\* completion callback got success = true; never in an attempt in which a
\* write failed, the download was incomplete, finalize failed or
\* cancelUpdate() was invoked.
C30_RestartOnlyWhenInstalled ==
    [][ ev'.op = "restart"
        => ( /\ Top.fn = "dai" /\ Top.pc = "delay"
             /\ Top.success
             /\ downloadedSize = totalSize
             /\ totalSize = Top.size
             /\ Top.nFalse = 0
             /\ ~Top.cancelled ) ]_vars


\* C31: the boolean a downloadAndInstall() returns agrees with the completion
\* event: an activation that returned after completion(false) was reported
\* for its attempt returned false.
C31_ReturnAgreesWithCompletion ==
    \A f \in Frames : (Returned(f) /\ f.nFalse >= 1) => ~f.retval


\* C32: a write that returns a count different from the chunk length stops
\* the download at once: from the failed write to its return the activation
\* leaves downloadedSize alone, reads and writes no further chunk, reports no
\* progress, never calls end(), and returns false only after abort() and
\* completion(false).
WriteFailPcs == {"write_fail", "cb_writefail", "abort", "aborted",
                 "cb_failed", "cb_complete_failed"}
C32_ShortWriteStopsDownload ==
    [][ /\ (ev'.op = "write" /\ ~ev'.ok)
            => (Top'.pc = "write_fail" /\ downloadedSize' = downloadedSize)
        /\ (OwnStep /\ Top.fn = "dai" /\ Top.pc \in WriteFailPcs)
            => ( /\ downloadedSize' = downloadedSize
                 /\ ev'.op \notin {"write", "progress", "end", "restart",
                                   "yield", "get"}
                 /\ Top'.pc \in WriteFailPcs \cup {"done"}
                 /\ Top'.pc = "done"
                      => Top'.abortCalled /\ Top'.nFalse >= 1
                         /\ ~Top'.retval ) ]_vars
C32_Witness ==
    /\ Running /\ Top.fn = "dai" /\ Top.pc = "abort"
    /\ ev.op = "http_end" /\ ~ev.ok
    /\ downloadedSize > 0 /\ downloadedSize < totalSize


\* C33: the download loop yields on every iteration, the ones with no bytes
\* available included: the loop condition is evaluated again only by an
\* activation that has just yielded, an iteration that goes on leads to a
\* chunk write or to the yield, and the yield point is reached by delay(1).
C33_LoopYieldsEveryIteration ==
    [][ (OwnStep /\ Top.fn = "dai")
        => ( /\ Top'.pc = "loop" => (Top.pc = "yield" \/ ev'.op = "get")
             /\ (Top'.pc = "yield" /\ Top.pc # "yield") => ev'.op = "yield"
             /\ Top.pc = "loop"
                  => Top'.pc \in {"written", "write_fail", "yield",
                                  "end", "cb_incomplete"}
             /\ Top.pc = "written" => Top'.pc = "cb_progress"
             /\ Top.pc = "cb_progress" => Top'.pc = "yield" ) ]_vars
C33_Witness ==
    /\ Running /\ Top.fn = "dai" /\ Top.pc = "yield"
    /\ ev.op = "yield"
    /\ downloadedSize = 0 /\ totalSize > 0 /\ Top.lastProg = -1


C35_RequestsLatestReleaseUrl ==
    (check.pc # "idle" /\ check.requested)
        => check.url = FullUrl(Endpoint(check.repo))


\* C36: the byte counters are reset at the start of each attempt: while
\* updateInProgress is true for an accepted downloadAndInstall(descriptor)
\* that no cancelUpdate() has hit, totalSize is 0 or descriptor.fileSize and
\* never the size of an earlier attempt, and downloadedSize is 0 as long as
\* the attempt has reported no progress.
C36_CountersResetPerAttempt ==
    ( /\ Running /\ Len(stack) = 1
      /\ Top.fn = "dai" /\ Top.claimed /\ Top.pc # "done"
      /\ updateInProgress /\ ~Top.cancelled )
        => ( /\ totalSize \in {0, Top.size}
             /\ Top.lastProg < 0 => downloadedSize = 0 )

\* C37: the descriptor the settings screen hands to downloadAndInstall()
\* carries the download URL and the file size that the check which offered
\* the update resolved: the size the update target is begun with is the size
\* of the selected firmware asset.
C37_ScreenPassesResolvedSize ==
    [][ (screen.pc = "idle" /\ screen'.pc = "downloading")
        => ( /\ ScreenRelease.downloadUrl = screen.updateUrl
             /\ Len(stack') = 1
             /\ stack'[1].size = screen.foundSize ) ]_vars


\* C38: the progress computation never divides by zero: whenever
\* updateProgress(downloadedSize, totalSize) is about to be called, and when
\* the progress callback has just been invoked, totalSize > 0, for every
\* expected size (0 included) and every stream behaviour.
C38_ProgressTotalPositive ==
    /\ (Running /\ Top.fn = "dai" /\ Top.pc = "written") => totalSize > 0
    /\ ev.op = "progress" => totalSize > 0
\* progress reported by an attempt while the counters are those a nested
\* attempt for another size has set
C38_Witness ==
    /\ Running /\ Top.fn = "dai" /\ Top.pc = "cb_progress"
    /\ ev.op = "progress"
    /\ totalSize # Top.size

====
